---- MODULE Spec2Model ----
(***************************************************************************)
(* Model of ostdl, the OpenSubtitles downloader.                           *)
(*                                                                         *)
(* The source tree holds two revisions of the same logic: the monolithic   *)
(* src/main.rs (the crate root, which also holds real_main) and the        *)
(* modules hash.rs, api.rs, subtitle.rs and error.rs.  Their functions are *)
(* the same except hash_block (read against read_exact) and get_lang       *)
(* (partial_cmp().unwrap() against score_cmp).  The variable rev says      *)
(* which revision of these two functions a run uses.                       *)
(*                                                                         *)
(* Strings the program takes apart (paths, language lists, hex digits) are *)
(* sequences of one-character strings.  A u64 is its eight bytes, least    *)
(* significant first, as the target (little-endian) lays it out in memory. *)
(***************************************************************************)
EXTENDS Integers, Sequences, FiniteSets, TLC

VARIABLES
    rev,        \* "modules" (hash.rs, api.rs, subtitle.rs) or "main_rs" (main.rs)
    call,       \* the function under test and its arguments (function specs)
    ret,        \* what that call returned
    args,       \* the command line: FILES, --langs, --all; and the disk at start
    pc,         \* where the run stands
    token,      \* real_main's token
    fi,         \* the file of FILES the loop of real_main is at (0 before it)
    subs,       \* download_subtitles: the candidates of the current file
    li,         \* the language of langs.split(',') the loop is at
    lang_subs,  \* the ranked candidates of the current language
    ci,         \* the candidate of lang_subs being downloaded
    gzipped,    \* download_to_file: the payload read
    fs,         \* the output files on disk, path to contents
    rpc,        \* the XML-RPC calls made, in order, each with its response
    attempts,   \* the calls of download_subtitle, in order
    stdout,     \* the lines printed
    stderr      \* the errors, warnings and panic messages printed

runvars == <<args, pc, token, fi, subs, li, lang_subs, ci, gzipped, fs, rpc, attempts,
             stdout, stderr>>

vars == <<rev, call, ret, runvars>>

Revs == {"modules", "main_rs"}

NoCall == [fn |-> "none"]

\* Result<T, E> and Option<T>
Ok(v) == [ok |-> TRUE, val |-> v]
Err(e) == [ok |-> FALSE, err |-> e]
Some(v) == [some |-> TRUE, val |-> v]
None == [some |-> FALSE]
\* a panic (unwrap on None/Err, index of a missing key): the process aborts
Panic == [ok |-> FALSE, err |-> "panic"]

(***************************************************************************)
(* u64 with wraparound                                                     *)
(***************************************************************************)
U64Zero == <<0, 0, 0, 0, 0, 0, 0, 0>>

\* Wrapping<u64> + Wrapping<u64>: the carry out of the top byte is dropped
RECURSIVE AddFrom(_, _, _, _)
AddFrom(a, b, j, carry) ==
    IF j > 8 THEN <<>>
    ELSE LET s == a[j] + b[j] + carry
         IN  <<s % 256>> \o AddFrom(a, b, j + 1, s \div 256)

WrappingAdd(a, b) == AddFrom(a, b, 1, 0)

\* a file length as u64 (lengths here stay below 2^24)
RECURSIVE ToBytes(_, _)
ToBytes(n, k) == IF k = 0 THEN <<>> ELSE <<n % 256>> \o ToBytes(n \div 256, k - 1)

ToU64(n) == ToBytes(n, 8)

(***************************************************************************)
(* Files.  A file is its length and its non-zero bytes: data maps the      *)
(* positions that hold a non-zero byte to that byte; every other position  *)
(* below size holds 0.  exists = FALSE is a path File::open fails on.      *)
(***************************************************************************)
CHUNKSIZE == 65536

ByteAt(file, p) == IF p \in DOMAIN file.data THEN file.data[p] ELSE 0

\* buf after reading from position pos into the zeroed [0u8; CHUNKSIZE]:
\* bytes past the end of the file are not read and stay 0
BufByte(file, pos, i) == IF pos + i < file.size THEN ByteAt(file, pos + i) ELSE 0

\* buf_u64[k]: mem::transmute of the buffer, native (little-endian) byte order
BufWord(file, pos, k) ==
    <<BufByte(file, pos, 8 * k), BufByte(file, pos, 8 * k + 1),
      BufByte(file, pos, 8 * k + 2), BufByte(file, pos, 8 * k + 3),
      BufByte(file, pos, 8 * k + 4), BufByte(file, pos, 8 * k + 5),
      BufByte(file, pos, 8 * k + 6), BufByte(file, pos, 8 * k + 7)>>

\* the fold over buf_u64[lo..hi]; wrapping addition is associative, so the
\* range is halved, and a range holding only zero bytes adds nothing
RECURSIVE FoldWords(_, _, _, _)
FoldWords(file, pos, lo, hi) ==
    IF \A p \in DOMAIN file.data : p < pos + 8 * lo \/ p > pos + 8 * hi + 7
    THEN U64Zero
    ELSE IF lo = hi THEN BufWord(file, pos, lo)
    ELSE LET mid == (lo + hi) \div 2
         IN  WrappingAdd(FoldWords(file, pos, lo, mid), FoldWords(file, pos, mid + 1, hi))

\* hash.rs: read_exact fails (UnexpectedEof) unless CHUNKSIZE bytes are left
hash_block(file, pos) ==
    IF file.size - pos < CHUNKSIZE
    THEN Err("Io")
    ELSE Ok(FoldWords(file, pos, 0, CHUNKSIZE \div 8 - 1))

\* main.rs: read returns Ok(n) for any n read, the count is dropped and the
\* rest of the zeroed buffer is summed as it is
hash_block_main(file, pos) ==
    Ok(FoldWords(file, pos, 0, CHUNKSIZE \div 8 - 1))

HashBlock(r, file, pos) ==
    IF r = "modules" THEN hash_block(file, pos) ELSE hash_block_main(file, pos)

\* a plausible slip: the tail window taken from the start of any file whose
\* windows would overlap
seekto_NoOverlap(fsize) == IF fsize > 2 * CHUNKSIZE THEN fsize - CHUNKSIZE ELSE 0

seekto(fsize) == IF fsize > CHUNKSIZE THEN fsize - CHUNKSIZE ELSE 0

size_and_hash(r, file) ==
    IF ~file.exists THEN Err("Io")
    ELSE LET c1 == HashBlock(r, file, 0)
             fsize == file.size
         IN  IF ~c1.ok THEN c1
             ELSE LET c2 == HashBlock(r, file, seekto(fsize))
                  IN  IF ~c2.ok THEN c2
                      ELSE Ok(<<fsize, WrappingAdd(WrappingAdd(ToU64(fsize), c1.val), c2.val)>>)

(***************************************************************************)
(* Strings as sequences of characters                                      *)
(***************************************************************************)
ENG == <<"e", "n", "g">>
ENG_UPPER == <<"E", "n", "g">>
FRE == <<"f", "r", "e">>
SRT == <<"s", "r", "t">>
SUB == <<"s", "u", "b">>
NOLANG == <<"n", "o", "l", "a", "n", "g">>

Digit(d) == <<"0", "1", "2", "3", "4", "5", "6", "7", "8", "9",
              "a", "b", "c", "d", "e", "f">>[d + 1]

\* u64::to_string / usize Display: decimal, no padding
RECURSIVE to_string(_)
to_string(n) == IF n < 10 THEN <<Digit(n)>> ELSE to_string(n \div 10) \o <<Digit(n % 10)>>

\* str::split(sep): the pieces between separators, empty pieces included
RECURSIVE split(_, _)
split(s, sep) ==
    IF \A i \in 1..Len(s) : s[i] # sep THEN <<s>>
    ELSE LET i == CHOOSE k \in 1..Len(s) : s[k] = sep /\ \A m \in 1..(k-1) : s[m] # sep
         IN  <<SubSeq(s, 1, i - 1)>> \o split(SubSeq(s, i + 1, Len(s)), sep)

(***************************************************************************)
(* xmlrpc::Value                                                           *)
(***************************************************************************)
VString(s) == [t |-> "String", s |-> s]
VDouble(d) == [t |-> "Double", d |-> d]
VInt(i) == [t |-> "Int", i |-> i]
VStruct(m) == [t |-> "Struct", m |-> m]
VArray(a) == [t |-> "Array", a |-> a]

as_struct(v) == IF v.t = "Struct" THEN Some(v.m) ELSE None
as_str(v) == IF v.t = "String" THEN Some(v.s) ELSE None
as_f64(v) == IF v.t = "Double" THEN Some(v.d) ELSE None

\* BTreeMap::get(key)
get(m, key) == IF key \in DOMAIN m THEN Some(m[key]) ELSE None

\* Option::and_then(Value::as_str), Option::and_then(Value::as_f64)
and_then_as_str(o) == IF o.some THEN as_str(o.val) ELSE None
and_then_as_f64(o) == IF o.some THEN as_f64(o.val) ELSE None

unwrap_or(o, d) == IF o.some THEN o.val ELSE d

\* f64 scores: NaN or a number
NaN == [nan |-> TRUE, v |-> 0]
Num(x) == [nan |-> FALSE, v |-> x]

(***************************************************************************)
(* api.rs                                                                  *)
(***************************************************************************)
E_INV_RESP == Err("invalid xml-rpc response")

starts_with_200(s) == Len(s) >= 3 /\ SubSeq(s, 1, 3) = <<"2", "0", "0">>

val_to_response(v) ==
    LET resp == as_struct(v)
    IN  IF ~resp.some THEN E_INV_RESP
        ELSE LET status == and_then_as_str(get(resp.val, "status"))
             IN  IF ~status.some THEN E_INV_RESP
                 ELSE IF starts_with_200(status.val) THEN Ok(resp.val)
                 ELSE Err("xmlrpc request failed")

\* the 16 hex digits of a u64, most significant first
Nibbles(h) == [i \in 1..16 |->
                 LET b == h[8 - (i - 1) \div 2]
                 IN  IF i % 2 = 1 THEN b \div 16 ELSE b % 16]

\* format!("{:x}", hash): lower-case hex without padding, "0" for zero
LowerHex(h) ==
    LET n == Nibbles(h)
        nz == {i \in 1..16 : n[i] # 0}
        first == IF nz = {} THEN 16 ELSE CHOOSE i \in nz : \A k \in nz : i <= k
    IN  [i \in 1..(17 - first) |-> Digit(n[first + i - 1])]

make_req(lang, size, hash) ==
    VStruct([sublanguageid |-> VString(lang),
             moviehash |-> VString(LowerHex(hash)),
             moviebytesize |-> VString(to_string(size))])

\* a plausible slip: a response without a token taken as an empty token
get_token_or_default(resp) ==
    IF ~resp.ok THEN resp
    ELSE LET r == val_to_response(resp.val)
         IN  IF ~r.ok THEN r
             ELSE Ok(unwrap_or(and_then_as_str(get(r.val, "token")), ""))

get_token(resp) ==
    IF ~resp.ok THEN resp
    ELSE LET r == val_to_response(resp.val)
         IN  IF ~r.ok THEN r
             ELSE LET tok == and_then_as_str(get(r.val, "token"))
                  IN  IF tok.some THEN Ok(tok.val) ELSE E_INV_RESP

(***************************************************************************)
(* subtitle.rs: candidates and ranking                                     *)
(***************************************************************************)
\* a plausible slip: the language required with ? like the link
match_to_sub_lang_required(v) ==
    LET data == as_struct(v)
    IN  IF ~data.some THEN None
        ELSE LET url == and_then_as_str(get(data.val, "SubDownloadLink"))
                 lang == and_then_as_str(get(data.val, "SubLanguageID"))
             IN  IF ~url.some \/ ~lang.some THEN None
                 ELSE Some([url |-> url.val,
                            score |-> unwrap_or(and_then_as_f64(get(data.val, "Score")), Num(0)),
                            lang |-> lang.val,
                            format |-> unwrap_or(and_then_as_str(get(data.val, "SubFormat")), SRT)])

match_to_sub(v) ==
    LET data == as_struct(v)
    IN  IF ~data.some THEN None
        ELSE LET url == and_then_as_str(get(data.val, "SubDownloadLink"))
             IN  IF ~url.some THEN None
                 ELSE Some([url |-> url.val,
                            score |-> unwrap_or(and_then_as_f64(get(data.val, "Score")), Num(0)),
                            lang |-> unwrap_or(and_then_as_str(get(data.val, "SubLanguageID")), NOLANG),
                            format |-> unwrap_or(and_then_as_str(get(data.val, "SubFormat")), SRT)])

\* hits.iter().map(match_to_sub).filter(Option::is_some).map(Option::unwrap).collect()
RECURSIVE CollectSubs(_)
CollectSubs(hits) ==
    IF hits = <<>> THEN <<>>
    ELSE LET o == match_to_sub(Head(hits))
         IN  (IF o.some THEN <<o.val>> ELSE <<>>) \o CollectSubs(Tail(hits))

\* f64::partial_cmp on two numbers
NumCmp(x, y) == IF x < y THEN "Less" ELSE IF x > y THEN "Greater" ELSE "Equal"

\* subtitle.rs: higher or non-NaN first
score_cmp(a, b) ==
    IF a.score.nan /\ b.score.nan THEN "Equal"
    ELSE IF a.score.nan THEN "Greater"
    ELSE IF b.score.nan THEN "Less"
    ELSE NumCmp(b.score.v, a.score.v)

\* main.rs: b.score.partial_cmp(&a.score).unwrap(), None for a NaN operand
score_cmp_main(a, b) ==
    IF a.score.nan \/ b.score.nan THEN "panic" ELSE NumCmp(b.score.v, a.score.v)

ScoreCmp(r, a, b) == IF r = "modules" THEN score_cmp(a, b) ELSE score_cmp_main(a, b)

\* subs.iter().filter(|i| i.lang == lang).collect()
RECURSIVE FilterLang(_, _)
FilterLang(s, lang) ==
    IF s = <<>> THEN <<>>
    ELSE (IF Head(s).lang = lang THEN <<Head(s)>> ELSE <<>>) \o FilterLang(Tail(s), lang)

\* slice::sort_by, stable: x goes in behind the last element that does not
\* compare Greater than it; a panicking comparison panics the sort
RECURSIVE InsertSorted(_, _, _)
InsertSorted(r, sorted, x) ==
    IF sorted = <<>> THEN Ok(<<x>>)
    ELSE LET last == sorted[Len(sorted)]
             c == ScoreCmp(r, last, x)
         IN  IF c = "panic" THEN Panic
             ELSE IF c = "Greater"
             THEN LET rest == InsertSorted(r, SubSeq(sorted, 1, Len(sorted) - 1), x)
                  IN  IF rest.ok THEN Ok(Append(rest.val, last)) ELSE rest
             ELSE Ok(Append(sorted, x))

RECURSIVE sort_by(_, _)
sort_by(r, s) ==
    IF s = <<>> THEN Ok(<<>>)
    ELSE LET front == sort_by(r, SubSeq(s, 1, Len(s) - 1))
         IN  IF front.ok THEN InsertSorted(r, front.val, s[Len(s)]) ELSE front

get_lang(r, s, lang) == sort_by(r, FilterLang(s, lang))

(***************************************************************************)
(* subtitle.rs: output file names                                          *)
(***************************************************************************)
RECURSIVE Normal(_)
Normal(segs) ==
    IF segs = <<>> THEN <<>>
    ELSE (IF Head(segs) = <<>> \/ Head(segs) = <<".">> THEN <<>> ELSE <<Head(segs)>>)
         \o Normal(Tail(segs))

\* Path::file_name: the last component, unless the path ends in ".." or has
\* no component but the root or "."
file_name(path) ==
    LET comps == Normal(split(path, "/"))
    IN  IF comps = <<>> THEN None
        ELSE IF comps[Len(comps)] = <<".", ".">> THEN None
        ELSE Some(comps[Len(comps)])

\* Path::file_stem: the file name up to its last ".", the whole name when it
\* has no "." or only a leading one
file_stem(path) ==
    LET name == file_name(path)
    IN  IF ~name.some THEN None
        ELSE LET f == name.val
                 dots == {i \in 1..Len(f) : f[i] = "."}
                 d == CHOOSE i \in dots : \A k \in dots : k <= i
             IN  IF dots = {} THEN Some(f)
                 ELSE IF d = 1 THEN Some(f)
                 ELSE Some(SubSeq(f, 1, d - 1))

\* download_subtitles: file_stem().map(PathBuf::from).unwrap_or_else(|| fname_path.clone())
fname_base(fname) == unwrap_or(file_stem(fname), fname)

\* download_subtitle: the file name pushed together
fname_os(base, lang, idx, sub) ==
    IF idx.some
    THEN base \o <<".">> \o lang \o <<"-">> \o to_string(idx.val) \o <<".">> \o sub.format
    ELSE base \o <<".">> \o lang \o <<".">> \o sub.format

(***************************************************************************)
(* size_and_hash on files of chosen lengths with a few non-zero bytes      *)
(***************************************************************************)
MaxMarks == 2

FileSizes == {0, 100, 65535, 65536, 65539, 70000, 131072, 140000}

ByteVals == {1, 255}

\* positions at both ends of both windows, on several byte lanes
MarkPositions(size) ==
    {p \in {0, 7, 15, 4464, 65535, 65536, size - 65536, size - 1} : 0 <= p /\ p < size}

FilesOfSize(n) ==
    {[exists |-> TRUE, size |-> n, data |-> d] :
        d \in UNION {[S -> ByteVals] : S \in {T \in SUBSET MarkPositions(n) : Cardinality(T) <= MaxMarks}}}

HashFiles ==
    {[exists |-> FALSE, size |-> 0, data |-> <<>>]} \cup UNION {FilesOfSize(n) : n \in FileSizes}

\* the function specifications leave the run where it is before it starts
RunIdle ==
    /\ args = [files |-> <<>>, langs |-> <<>>, which |-> "Best", fs |-> <<>>]
    /\ pc = "get_token"
    /\ token = [some |-> FALSE]
    /\ fi = 0 /\ li = 0 /\ ci = 0
    /\ subs = <<>> /\ lang_subs = <<>> /\ gzipped = <<>>
    /\ fs = <<>> /\ rpc = <<>> /\ attempts = <<>> /\ stdout = <<>> /\ stderr = <<>>

FnInit == rev \in Revs /\ call = NoCall /\ ret = NoCall /\ RunIdle

HashInit == FnInit

HashCall ==
    \E file \in HashFiles :
        /\ call = NoCall
        /\ call' = [fn |-> "size_and_hash", file |-> file]
        /\ ret' = size_and_hash(rev, file)
        /\ UNCHANGED <<rev, runvars>>

HashNext == HashCall

SpecHash == HashInit /\ [][HashNext]_vars

\* The sum of f over the set S
RECURSIVE SumOver(_, _)
SumOver(S, f) ==
    IF S = {} THEN 0
    ELSE LET x == CHOOSE y \in S : TRUE IN f[x] + SumOver(S \ {x}, f)

\* The bytes of the window starting at start that fall on byte lane j of
\* their little-endian word, added up as integers
LaneSum(file, start, j) ==
    SumOver({p \in DOMAIN file.data : start <= p /\ p < start + 65536 /\ (p - start) % 8 = j},
            file.data)

\* (fsize + chunk1 + chunk2) mod 2^64, digit by digit in base 256
ExpectedHash(file) ==
    LET col[j \in 1..8] == ToU64(file.size)[j] + LaneSum(file, 0, j - 1)
                              + LaneSum(file, file.size - 65536, j - 1)
        carry[j \in 1..9] == IF j = 1 THEN 0 ELSE (col[j-1] + carry[j-1]) \div 256
    IN  [j \in 1..8 |-> (col[j] + carry[j]) % 256]

HashedLarge == call.fn = "size_and_hash" /\ call.file.exists /\ call.file.size >= 65536

\* C1: a file of at least 65536 bytes yields (fsize, (fsize + chunk1 + chunk2)
\* mod 2^64), the chunks being the wraparound sums of the little-endian words
\* of the first and of the last 65536 bytes, overlapping or not; an all-zero
\* file of N bytes hashes to N, 70000 to 70000.
C1_SizeAndHash ==
    HashedLarge =>
        /\ ret = Ok(<<call.file.size, ExpectedHash(call.file)>>)
        /\ DOMAIN call.file.data = {} => ret.val[2] = ToU64(call.file.size)
        /\ (DOMAIN call.file.data = {} /\ call.file.size = 70000)
              => ret.val = <<70000, <<112, 17, 1, 0, 0, 0, 0, 0>>>>

\* C1 witness: the windows overlap, a non-zero byte lies in both, and the
\* top bytes of the words add up past 2^64
C1_Witness ==
    /\ HashedLarge
    /\ call.file.size < 131072
    /\ \E p \in DOMAIN call.file.data : call.file.size - 65536 <= p /\ p < 65536
    /\ LaneSum(call.file, 0, 7) + LaneSum(call.file, call.file.size - 65536, 7) >= 256
    /\ ret.ok

\* C7: a file shorter than 65536 bytes yields an error and no (size, hash)
C7_ShortFileFails ==
    (call.fn = "size_and_hash" /\ call.file.exists /\ call.file.size < 65536) => ~ret.ok

\* hash.rs alone does reject the short file: read_exact
C7_ShortFileFailsReadExact ==
    (rev = "modules" /\ call.fn = "size_and_hash" /\ call.file.size < 65536) => ~ret.ok

(***************************************************************************)
(* get_lang on short candidate lists                                       *)
(***************************************************************************)
MaxSubs == 3

RankScores == {NaN, Num(2), Num(5)}
RankLangs == {ENG, ENG_UPPER}

\* the i-th candidate of a list has its own url
Url(i) == <<"u", Digit(i)>>

SubLists(n) ==
    {[i \in 1..n |-> [url |-> Url(i), score |-> f[i][1], lang |-> f[i][2], format |-> SRT]] :
        f \in [1..n -> RankScores \X RankLangs]}

\* scores 5.0, NaN, 2.0, NaN, 9.0, all "eng"
NanExample ==
    [i \in 1..5 |-> [url |-> Url(i),
                     score |-> <<Num(5), NaN, Num(2), NaN, Num(9)>>[i],
                     lang |-> ENG, format |-> SRT]]

RankInputs == {NanExample} \cup UNION {SubLists(n) : n \in 0..MaxSubs}

RankCall ==
    \E s \in RankInputs, lang \in RankLangs :
        /\ call = NoCall
        /\ call' = [fn |-> "get_lang", subs |-> s, lang |-> lang]
        /\ ret' = get_lang(rev, s, lang)
        /\ UNCHANGED <<rev, runvars>>

RankNext == RankCall

SpecRank == FnInit /\ [][RankNext]_vars

\* where candidate x stands in the list s (urls differ)
PosIn(s, x) == CHOOSE i \in 1..Len(s) : s[i] = x

\* x and y compare equal: two NaNs or the same number
SameScore(x, y) == x.score.nan = y.score.nan /\ (~x.score.nan => x.score.v = y.score.v)

\* r holds the candidates of s with language lang, numbers before NaNs, higher
\* numbers first, equal ones in the order of s
RankedFor(r, s, lang) ==
    /\ Len(r) = Cardinality({i \in 1..Len(s) : s[i].lang = lang})
    /\ \A i \in 1..Len(s) : s[i].lang = lang => \E k \in 1..Len(r) : r[k] = s[i]
    /\ \A k \in 1..Len(r) : r[k].lang = lang /\ \E i \in 1..Len(s) : s[i] = r[k]
    /\ \A k, m \in 1..Len(r) : k < m =>
          /\ r[k].score.nan => r[m].score.nan
          /\ (~r[k].score.nan /\ ~r[m].score.nan) => r[k].score.v >= r[m].score.v
          /\ SameScore(r[k], r[m]) => PosIn(s, r[k]) < PosIn(s, r[m])

\* C2: get_lang never fails and returns exactly the candidates of the language
\* (case-sensitive), non-NaN scores first and non-increasing, equal ones in
\* input order; scores [5, NaN, 2, NaN, 9] come out as [9, 5, 2, NaN, NaN].
C2_RankTotalOrder ==
    call.fn = "get_lang" =>
        /\ ret.ok
        /\ RankedFor(ret.val, call.subs, call.lang)
        /\ (call.subs = NanExample /\ call.lang = ENG)
              => [i \in 1..5 |-> ret.val[i].score] = <<Num(9), Num(5), Num(2), NaN, NaN>>

\* subtitle.rs alone (score_cmp) does rank every list so
C2_RankTotalOrderScoreCmp ==
    (rev = "modules" /\ call.fn = "get_lang") =>
        /\ ret.ok
        /\ RankedFor(ret.val, call.subs, call.lang)
        /\ (call.subs = NanExample /\ call.lang = ENG)
              => [i \in 1..5 |-> ret.val[i].score] = <<Num(9), Num(5), Num(2), NaN, NaN>>

(***************************************************************************)
(* output file names for short paths                                       *)
(***************************************************************************)
MaxPathLen == 4

PathChars == {"/", ".", "m", "k"}

MOVIE_MKV == <<"m", "o", "v", "i", "e", ".", "m", "k", "v">>
DIR_MOVIE_MKV == <<"d", "i", "r", "/">> \o MOVIE_MKV

Paths == {MOVIE_MKV, DIR_MOVIE_MKV} \cup UNION {[1..n -> PathChars] : n \in 0..MaxPathLen}

NameIdx == {None, Some(1), Some(2), Some(10)}

\* download_subtitles lines 139-143 and download_subtitle lines 115-120
NameCall ==
    \E fname \in Paths, idx \in NameIdx, format \in {SRT, SUB} :
        LET sub == [url |-> Url(1), score |-> Num(5), lang |-> ENG, format |-> format]
        IN  /\ call = NoCall
            /\ call' = [fn |-> "download_subtitle", fname |-> fname, lang |-> ENG,
                        idx |-> idx, sub |-> sub]
            /\ ret' = fname_os(fname_base(fname), ENG, idx, sub)
            /\ UNCHANGED <<rev, runvars>>

NameNext == NameCall

SpecName == FnInit /\ [][NameNext]_vars

\* where the final component of the path ends: only "/" and "." follow it
NameEnd(path, name) ==
    CHOOSE e \in Len(name)..Len(path) :
        /\ SubSeq(path, e - Len(name) + 1, e) = name
        /\ \A i \in (e + 1)..Len(path) : path[i] \in {"/", "."}
        /\ \A e2 \in (e + 1)..Len(path) :
              ~(/\ e2 >= Len(name)
                /\ SubSeq(path, e2 - Len(name) + 1, e2) = name
                /\ \A i \in (e2 + 1)..Len(path) : path[i] \in {"/", "."})

\* the path with the final extension of its last component taken off and
\* the directory part kept; the path itself when it has no stem
StrippedPath(path) ==
    IF ~file_stem(path).some THEN path
    ELSE LET name == file_name(path).val
         IN  SubSeq(path, 1, NameEnd(path, name) - Len(name)) \o file_stem(path).val

ClaimedSuffix(lang, idx, format) ==
    IF idx.some THEN <<".">> \o lang \o <<"-">> \o to_string(idx.val) \o <<".">> \o format
    ELSE <<".">> \o lang \o <<".">> \o format

\* C4: the output path is the input path with only its final extension
\* stripped (directory kept), or the path itself when no stem can be
\* separated, then ".<lang>.<format>" or ".<lang>-<n>.<format>";
\* "movie.mkv", "eng", "srt" gives "movie.eng.srt", with index 2 "movie.eng-2.srt".
C4_OutputPath ==
    call.fn = "download_subtitle" =>
        ret = StrippedPath(call.fname) \o ClaimedSuffix(call.lang, call.idx, call.sub.format)

\* what does hold: the name is built on the stem of the last component only
C4_OutputPathFromFileStem ==
    call.fn = "download_subtitle" =>
        /\ ret = unwrap_or(file_stem(call.fname), call.fname)
                   \o ClaimedSuffix(call.lang, call.idx, call.sub.format)
        /\ (call.fname = MOVIE_MKV /\ call.sub.format = SRT /\ call.idx = None)
              => ret = <<"m", "o", "v", "i", "e", ".", "e", "n", "g", ".", "s", "r", "t">>
        /\ (call.fname = MOVIE_MKV /\ call.sub.format = SRT /\ call.idx = Some(2))
              => ret = <<"m", "o", "v", "i", "e", ".", "e", "n", "g", "-", "2", ".", "s", "r", "t">>

(***************************************************************************)
(* match_to_sub and the hits of a search response                          *)
(***************************************************************************)
MaxHits == 2

HTTP_A == <<"h", "t", "t", "p", ":", "/", "/", "a">>
OK200 == <<"2", "0", "0", " ", "O", "K">>

SubFields == {"SubDownloadLink", "SubLanguageID", "Score", "SubFormat"}

\* what a field of a raw record may hold: a string, a double, an int
FieldValues(k) ==
    CASE k = "SubDownloadLink" -> {VString(HTTP_A), VString(<<>>), VInt(1)}
      [] k = "SubLanguageID" -> {VString(FRE), VDouble(Num(5))}
      [] k = "Score" -> {VDouble(Num(7)), VDouble(NaN), VString(<<"7">>), VInt(7)}
      [] k = "SubFormat" -> {VString(SUB), VInt(1)}

\* every struct over a subset of the fields, and values that are no struct
RawRecords ==
    {VString(HTTP_A), VInt(1), VArray(<<>>)} \cup
    {VStruct(m) : m \in UNION {{f \in [D -> UNION {FieldValues(k) : k \in D}] :
                                    \A k \in D : f[k] \in FieldValues(k)} : D \in SUBSET SubFields}}

\* a few of them, for the responses of several hits
SomeRecords ==
    {VInt(1),
     VStruct([SubLanguageID |-> VString(ENG), Score |-> VDouble(Num(5))]),
     VStruct([SubDownloadLink |-> VString(HTTP_A)]),
     VStruct([SubDownloadLink |-> VString(<<>>), SubLanguageID |-> VString(FRE),
              Score |-> VDouble(Num(7)), SubFormat |-> VString(SUB)]),
     VStruct([SubDownloadLink |-> VInt(1), SubLanguageID |-> VString(FRE)])}

\* find_subtitles from the response on: val_to_response, then resp["data"],
\* which panics on a missing key (BTreeMap's Index)
search_result(search_resp) ==
    IF ~search_resp.ok THEN search_resp
    ELSE LET resp == val_to_response(search_resp.val)
         IN  IF ~resp.ok THEN resp
             ELSE IF "data" \notin DOMAIN resp.val THEN Panic
             ELSE IF resp.val["data"].t = "Array" THEN Ok(CollectSubs(resp.val["data"].a))
             ELSE E_INV_RESP

SearchResponse(hits) == VStruct([status |-> VString(OK200), data |-> VArray(hits)])

MatchCall ==
    \E v \in RawRecords :
        /\ call = NoCall
        /\ call' = [fn |-> "match_to_sub", v |-> v]
        /\ ret' = match_to_sub(v)
        /\ UNCHANGED <<rev, runvars>>

HitsCall ==
    \E n \in 0..MaxHits : \E hits \in [1..n -> SomeRecords] :
        /\ call = NoCall
        /\ call' = [fn |-> "find_subtitles", hits |-> hits]
        /\ ret' = search_result(Ok(SearchResponse(hits)))
        /\ UNCHANGED <<rev, runvars>>

SubNext == MatchCall \/ HitsCall

SpecSub == FnInit /\ [][SubNext]_vars

\* the raw record holds field k as a value of type t
HasTyped(v, k, t) == v.t = "Struct" /\ k \in DOMAIN v.m /\ v.m[k].t = t

\* the k-th smallest index of the set V
Kth(V, k) == CHOOSE i \in V : Cardinality({j \in V : j < i}) = k - 1

\* the candidate of a record with a string SubDownloadLink
ClaimedCandidate(v) ==
    [url |-> v.m["SubDownloadLink"].s,
     lang |-> IF HasTyped(v, "SubLanguageID", "String") THEN v.m["SubLanguageID"].s ELSE NOLANG,
     score |-> IF HasTyped(v, "Score", "Double") THEN v.m["Score"].d ELSE Num(0),
     format |-> IF HasTyped(v, "SubFormat", "String") THEN v.m["SubFormat"].s ELSE SRT]

\* C6: match_to_sub gives None exactly for a value that is no struct or has no
\* string SubDownloadLink; otherwise the url is that string, whatever it is,
\* and lang, score, format are the record's when of the right type and
\* "nolang", 0.0, "srt" otherwise, each on its own.  In find_subtitles the
\* None records add nothing, raise no error, and the others keep their order.
C6_MatchToSub ==
    /\ call.fn = "match_to_sub" =>
          /\ ~ret.some <=> ~HasTyped(call.v, "SubDownloadLink", "String")
          /\ ret.some => ret.val = ClaimedCandidate(call.v)
    /\ call.fn = "find_subtitles" =>
          LET hits == call.hits
              kept == {i \in 1..Len(hits) : HasTyped(hits[i], "SubDownloadLink", "String")}
          IN  /\ ret.ok
              /\ Len(ret.val) = Cardinality(kept)
              /\ \A k \in 1..Len(ret.val) : ret.val[k] = ClaimedCandidate(hits[Kth(kept, k)])

\* C6 witness: a response of two hits, the first without SubDownloadLink, the
\* second with nothing but it, yields the one candidate with every default
C6_Witness ==
    /\ call.fn = "find_subtitles"
    /\ Len(call.hits) = 2
    /\ ~HasTyped(call.hits[1], "SubDownloadLink", "String")
    /\ call.hits[2] = VStruct([SubDownloadLink |-> VString(HTTP_A)])
    /\ ret = Ok(<<[url |-> HTTP_A, score |-> Num(0), lang |-> NOLANG, format |-> SRT]>>)

(***************************************************************************)
(* make_req and the query batch                                            *)
(***************************************************************************)
ReqHashes == {<<a, 0, 0, 0, b, 0, 0, c>> : a, b, c \in {0, 10, 255}}
ReqSizes == {0, 7, 65536, 70000, 140000}
ENG_FRE == ENG \o <<",">> \o FRE

\* find_subtitles: Value::Array(vec![make_req(langs, size, hash)])
queries(langs, size, hash) == VArray(<<make_req(langs, size, hash)>>)

ReqCall ==
    \E langs \in {ENG, ENG_FRE}, size \in ReqSizes, hash \in ReqHashes :
        /\ call = NoCall
        /\ call' = [fn |-> "make_req", langs |-> langs, size |-> size, hash |-> hash]
        /\ ret' = queries(langs, size, hash)
        /\ UNCHANGED <<rev, runvars>>

ReqNext == ReqCall

SpecReq == FnInit /\ [][ReqNext]_vars

\* the number a string of decimal digits writes
RECURSIVE DecimalValue(_)
DecimalValue(s) ==
    IF s = <<>> THEN 0
    ELSE 10 * DecimalValue(SubSeq(s, 1, Len(s) - 1))
         + (CHOOSE d \in 0..9 : Digit(d) = s[Len(s)])

IsDecimal(s, n) ==
    /\ Len(s) >= 1
    /\ \A i \in 1..Len(s) : \E d \in 0..9 : Digit(d) = s[i]
    /\ Len(s) > 1 => s[1] # "0"
    /\ DecimalValue(s) = n

\* C10: moviehash is the hash in 16 hex digits, leading zeros kept;
\* moviebytesize is the size in decimal; the query is a batch of one element
\* carrying the whole comma-separated language string.
C10_MakeReq ==
    call.fn = "make_req" =>
        /\ ret.t = "Array" /\ Len(ret.a) = 1
        /\ ret.a[1].m["sublanguageid"] = VString(call.langs)
        /\ IsDecimal(ret.a[1].m["moviebytesize"].s, call.size)
        /\ Len(ret.a[1].m["moviehash"].s) = 16
        /\ \A i \in 1..16 : ret.a[1].m["moviehash"].s[i] = Digit(Nibbles(call.hash)[i])

\* what does hold: the hex digits without the leading zeros
C10_MakeReqUnpadded ==
    call.fn = "make_req" =>
        LET hex == ret.a[1].m["moviehash"].s
            pad == 16 - Len(hex)
        IN  /\ ret.t = "Array" /\ Len(ret.a) = 1
            /\ ret.a[1].m["sublanguageid"] = VString(call.langs)
            /\ IsDecimal(ret.a[1].m["moviebytesize"].s, call.size)
            /\ Len(hex) >= 1 /\ pad >= 0
            /\ \A i \in 1..pad : Nibbles(call.hash)[i] = 0
            /\ \A i \in 1..Len(hex) : hex[i] = Digit(Nibbles(call.hash)[pad + i])
            /\ Len(hex) > 1 => hex[1] # "0"

(***************************************************************************)
(* The run: real_main, download_subtitles, download_subtitle,              *)
(* download_to_file.  The server's answers and the outcome of every        *)
(* network and file-system call are chosen by the environment.             *)
(***************************************************************************)
MaxFiles == 2

A_MKV == <<"a", ".", "m", "k", "v">>
D_B_MKV == <<"d", "/", "b", ".", "m", "k", "v">>

\* an all-zero file of 70000 bytes in a directory, a file of 100 bytes, and a
\* path that cannot be opened
FileEntries ==
    {[path |-> D_B_MKV, file |-> [exists |-> TRUE, size |-> 70000, data |-> <<>>]],
     [path |-> A_MKV, file |-> [exists |-> TRUE, size |-> 100, data |-> <<>>]],
     [path |-> <<"x">>, file |-> [exists |-> FALSE, size |-> 0, data |-> <<>>]]}

\* the disk at start: an older b.eng.srt, no other output file
B_ENG_SRT == <<"b", ".", "e", "n", "g", ".", "s", "r", "t">>
Disk == [p \in {B_ENG_SRT} |-> "old"]

LoginResponses ==
    {Err("transport"),
     Ok(VString(OK200)),
     Ok(VStruct([token |-> VString("t1")])),
     Ok(VStruct([status |-> VString(<<"4", "0", "1">>), token |-> VString("t1")])),
     Ok(VStruct([status |-> VString(OK200)])),
     Ok(VStruct([status |-> VString(OK200), token |-> VInt(1)])),
     Ok(VStruct([status |-> VString(OK200), token |-> VString("t1")])),
     Ok(VStruct([status |-> VString(OK200), token |-> VString("t2")]))}

Hit(url, lang, score, format) ==
    VStruct([SubDownloadLink |-> VString(url), SubLanguageID |-> VString(lang),
             Score |-> VDouble(score), SubFormat |-> VString(format)])

HitLists ==
    {<<Hit("a", ENG, Num(5), SRT), Hit("b", FRE, Num(7), SUB)>>,
     <<Hit("a", ENG, NaN, SRT), VStruct([SubLanguageID |-> VString(ENG)]),
       Hit("c", ENG, Num(5), SRT)>>}

SearchResponses ==
    {Err("transport"),
     Ok(VInt(1)),
     Ok(VStruct([data |-> VArray(<<>>)])),
     Ok(VStruct([status |-> VString(<<"4", "0", "6">>), data |-> VArray(<<>>)])),
     Ok(VStruct([status |-> VString(OK200)])),
     Ok(VStruct([status |-> VString(OK200), data |-> VString(<<>>)]))}
    \cup {Ok(SearchResponse(h)) : h \in HitLists}

\* what reqwest hands back: a gzip stream of the subtitle, or something else
Payloads == {[gzip |-> TRUE, text |-> "subtitle"], [gzip |-> FALSE, text |-> "html"]}

Init ==
    /\ rev \in Revs
    /\ call = NoCall /\ ret = NoCall
    /\ args \in {[files |-> f, langs |-> l, which |-> w, fs |-> d] :
                    f \in UNION {[1..n -> FileEntries] : n \in 1..MaxFiles},
                    l \in {ENG, ENG_FRE}, w \in {"Best", "All"}, d \in {Disk}}
    /\ pc = "get_token"
    /\ token = None
    /\ fi = 0 /\ li = 0 /\ ci = 0
    /\ subs = <<>> /\ lang_subs = <<>> /\ gzipped = <<>>
    /\ fs = args.fs
    /\ rpc = <<>> /\ attempts = <<>> /\ stdout = <<>> /\ stderr = <<>>

\* a line of stderr, with the place it comes from
Line(kind, at, err) ==
    [kind |-> kind, at |-> at, file |-> fi, lang |-> li, cand |-> ci, err |-> err]

\* print_if_err(&res) with res an Err
PrintErr(at, e) == stderr' = Append(stderr, Line("error", at, e.err))

\* a panic: the message goes to stderr and the process ends
PanicAt(at) ==
    /\ stderr' = Append(stderr, Line("panic", at, "panic"))
    /\ pc' = "abort"

\* real_main: the loop over FILES goes on to file i, or main returns
FilePc(i) == IF i <= Len(args.files) THEN "find_subtitles" ELSE "exit"

\* real_main: let token = get_token()?
GetToken ==
    /\ pc = "get_token"
    /\ \E resp \in LoginResponses :
          LET t == get_token(resp)
          IN  /\ rpc' = Append(rpc, [method |-> "LogIn", resp |-> resp])
              /\ IF t.ok
                 THEN /\ token' = Some(t.val)
                      /\ fi' = 1
                      /\ pc' = FilePc(1)
                      /\ UNCHANGED stderr
                 ELSE /\ PrintErr("get_token", t)
                      /\ pc' = "exit"
                      /\ UNCHANGED <<token, fi>>
    /\ UNCHANGED <<rev, call, ret, args, subs, li, lang_subs, ci, gzipped, fs, attempts, stdout>>

\* download_subtitles up to the loop over the languages: find_subtitles(fname, langs, token)?
FindSubtitles ==
    /\ pc = "find_subtitles"
    /\ LET sh == size_and_hash(rev, args.files[fi].file)
       IN  IF ~sh.ok
           THEN /\ PrintErr("size_and_hash", sh)
                /\ fi' = fi + 1
                /\ pc' = FilePc(fi + 1)
                /\ UNCHANGED <<rpc, subs, li>>
           ELSE \E resp \in SearchResponses :
                  LET found == search_result(resp)
                  IN  /\ rpc' = Append(rpc, [method |-> "SearchSubtitles",
                                             file |-> fi,
                                             token |-> token.val,
                                             queries |-> queries(args.langs, sh.val[1], sh.val[2]),
                                             resp |-> resp])
                      /\ IF found.ok
                         THEN /\ subs' = found.val
                              /\ li' = 1
                              /\ pc' = "get_lang"
                              /\ UNCHANGED <<stderr, fi>>
                         ELSE IF found = Panic
                         THEN /\ PanicAt("find_subtitles")
                              /\ UNCHANGED <<subs, li, fi>>
                         ELSE /\ PrintErr("find_subtitles", found)
                              /\ fi' = fi + 1
                              /\ pc' = FilePc(fi + 1)
                              /\ UNCHANGED <<subs, li>>
    /\ UNCHANGED <<rev, call, ret, args, token, lang_subs, ci, gzipped, fs, attempts, stdout>>

Langs == split(args.langs, ",")

\* download_subtitles: one turn of for lang in langs.split(','), up to the downloads
GetLang ==
    /\ pc = "get_lang"
    /\ IF li > Len(Langs)
       THEN /\ fi' = fi + 1
            /\ pc' = FilePc(fi + 1)
            /\ UNCHANGED <<li, lang_subs, ci, stderr>>
       ELSE LET ranked == get_lang(rev, subs, Langs[li])
            IN  IF ~ranked.ok
                THEN /\ PanicAt("get_lang")
                     /\ UNCHANGED <<fi, li, lang_subs, ci>>
                ELSE IF ranked.val = <<>>
                THEN /\ stderr' = Append(stderr, Line("warning", "download_subtitles", "No subtitles"))
                     /\ li' = li + 1
                     /\ UNCHANGED <<fi, pc, lang_subs, ci>>
                ELSE /\ lang_subs' = ranked.val
                     /\ ci' = 1
                     /\ pc' = "download_subtitle"
                     /\ UNCHANGED <<fi, li, stderr>>
    /\ UNCHANGED <<rev, call, ret, args, token, subs, gzipped, fs, rpc, attempts, stdout>>

\* the index download_subtitle is given: None for Best, i + 1 for All
Idx == IF args.which = "Best" THEN None ELSE Some(ci)

\* the path download_subtitle builds for the current candidate
OutPath == fname_os(fname_base(args.files[fi].path), Langs[li], Idx, lang_subs[ci])

\* after a download: the next candidate of the language (All), or the next language
NextCandidate ==
    IF args.which = "All" /\ ci < Len(lang_subs)
    THEN /\ ci' = ci + 1
         /\ pc' = "download_subtitle"
         /\ UNCHANGED li
    ELSE /\ li' = li + 1
         /\ pc' = "get_lang"
         /\ UNCHANGED ci

\* download_to_file returned Err: download_subtitle returns it, print_if_err prints it
DownloadFailed(e) ==
    /\ PrintErr("download_to_file", e)
    /\ NextCandidate

\* what the disk holds at path p: nothing, or a file with its contents
PathState(p) == IF p \in DOMAIN fs THEN Some(fs[p]) ELSE None

\* download_subtitle(&fname_base, &lang, idx, sub), and reqwest::get(url)?
DownloadSubtitle ==
    /\ pc = "download_subtitle"
    /\ attempts' = Append(attempts, [file |-> fi, lang |-> li, idx |-> Idx,
                                     sub |-> lang_subs[ci], path |-> OutPath,
                                     old |-> PathState(OutPath)])
    /\ \/ /\ pc' = "create" /\ UNCHANGED <<li, ci, stderr>>
       \/ DownloadFailed(Err("reqwest"))
    /\ UNCHANGED <<rev, call, ret, args, token, fi, subs, lang_subs, gzipped, fs, rpc, stdout>>

\* File::create(path)?: the file is there and empty, or the call fails
Create ==
    /\ pc = "create"
    /\ \/ /\ fs' = [p \in DOMAIN fs \cup {OutPath} |-> IF p = OutPath THEN "" ELSE fs[p]]
          /\ pc' = "read_to_end"
          /\ UNCHANGED <<li, ci, stderr>>
       \/ DownloadFailed(Err("Io")) /\ UNCHANGED fs
    /\ UNCHANGED <<rev, call, ret, args, token, fi, subs, lang_subs, gzipped, rpc, attempts, stdout>>

\* res.read_to_end(&mut gzipped)?
ReadToEnd ==
    /\ pc = "read_to_end"
    /\ \/ \E body \in Payloads :
            /\ gzipped' = body
            /\ pc' = "gunzip"
            /\ UNCHANGED <<li, ci, stderr>>
       \/ DownloadFailed(Err("Io")) /\ UNCHANGED gzipped
    /\ UNCHANGED <<rev, call, ret, args, token, fi, subs, lang_subs, fs, rpc, attempts, stdout>>

\* Decoder::new(&gzipped[..]).unwrap() and decoder.read_to_end(..).unwrap()
Gunzip ==
    /\ pc = "gunzip"
    /\ IF gzipped.gzip
       THEN pc' = "write_all" /\ UNCHANGED stderr
       ELSE PanicAt("download_to_file")
    /\ UNCHANGED <<rev, call, ret, args, token, fi, subs, li, lang_subs, ci, gzipped, fs, rpc,
                   attempts, stdout>>

\* file.write_all(&decoded_data)?, then download_subtitle prints the name and the score
WriteAll ==
    /\ pc = "write_all"
    /\ \/ /\ fs' = [fs EXCEPT ![OutPath] = gzipped.text]
          /\ stdout' = Append(stdout, [path |-> OutPath, score |-> lang_subs[ci].score])
          /\ NextCandidate
          /\ UNCHANGED stderr
       \/ DownloadFailed(Err("Io")) /\ UNCHANGED <<fs, stdout>>
    /\ UNCHANGED <<rev, call, ret, args, token, fi, subs, lang_subs, gzipped, rpc, attempts>>

Next ==
    \/ GetToken
    \/ FindSubtitles
    \/ GetLang
    \/ DownloadSubtitle
    \/ Create
    \/ ReadToEnd
    \/ Gunzip
    \/ WriteAll

Spec == Init /\ [][Next]_vars

(***************************************************************************)
(* Properties of the run                                                   *)
(***************************************************************************)
Ended == pc \in {"exit", "abort"}

\* the login response is one the claim calls a success
LoginGood(resp) ==
    /\ resp.ok
    /\ HasTyped(resp.val, "status", "String")
    /\ Len(resp.val.m["status"].s) >= 3
    /\ SubSeq(resp.val.m["status"].s, 1, 3) = <<"2", "0", "0">>
    /\ HasTyped(resp.val, "token", "String")

\* C9: a failed authentication (transport error, status not "200...", no
\* string token) ends the run with that error reported and no file
\* fingerprinted, searched or written; otherwise the token is acquired once,
\* before the first file, and every search call carries that same token.
C9_TokenOncePerRun ==
    /\ pc = "get_token" => (rpc = <<>> /\ fi = 0 /\ ~token.some)
    /\ rpc # <<>> =>
          /\ rpc[1].method = "LogIn"
          /\ token.some <=> LoginGood(rpc[1].resp)
          /\ token.some => token.val = rpc[1].resp.val.m["token"].s
          /\ \A i \in 2..Len(rpc) :
                rpc[i].method = "SearchSubtitles" /\ token.some /\ rpc[i].token = token.val
          /\ ~LoginGood(rpc[1].resp) =>
                /\ pc = "exit"
                /\ Len(rpc) = 1 /\ fi = 0
                /\ attempts = <<>> /\ stdout = <<>> /\ fs = args.fs
                /\ Len(stderr) = 1 /\ stderr[1].kind = "error" /\ stderr[1].at = "get_token"

\* C9 witness: the server answers LogIn with a status that is not 200 and the
\* run of two files is over
C9_Witness ==
    /\ Len(args.files) = 2
    /\ rpc # <<>> /\ rpc[1].resp.ok
    /\ HasTyped(rpc[1].resp.val, "status", "String")
    /\ ~LoginGood(rpc[1].resp)
    /\ pc = "exit"

\* C3: a failure while materializing a candidate (fetch, gunzip, create,
\* write) is reported for that candidate and does not abort the run: the
\* remaining candidates, languages and files are still processed.
C3_CandidateFailureContained ==
    /\ \A i \in 1..Len(stderr) :
          stderr[i].at = "download_to_file" =>
              /\ stderr[i].kind = "error"
              /\ i < Len(stderr) => \/ stderr[i + 1].file > stderr[i].file
                                    \/ stderr[i + 1].lang > stderr[i].lang
                                    \/ stderr[i + 1].cand > stderr[i].cand
    /\ (pc = "exit" /\ token.some) => fi = Len(args.files) + 1

\* what does hold: the failures download_to_file returns as Err are contained
C3_ReturnedErrorsContained ==
    /\ \A i \in 1..Len(stderr) :
          (stderr[i].at = "download_to_file" /\ stderr[i].kind = "error" /\ i < Len(stderr))
             => \/ stderr[i + 1].file > stderr[i].file
                \/ stderr[i + 1].lang > stderr[i].lang
                \/ stderr[i + 1].cand > stderr[i].cand
    /\ (pc = "exit" /\ token.some) => fi = Len(args.files) + 1

\* C8: a failure of the fingerprinting or searching of a file (open, read,
\* seek, transport, response no struct or without string status, status not
\* "200...", data missing or no array) becomes an error for that file, is
\* reported once, starts no download for it, and the later files go on.
C8_FindFailureContained ==
    \A i \in 1..Len(stderr) :
        stderr[i].at \in {"size_and_hash", "find_subtitles"} =>
            /\ stderr[i].kind = "error"
            /\ \A j \in 1..Len(stderr) :
                  (stderr[j].file = stderr[i].file
                      /\ stderr[j].at \in {"size_and_hash", "find_subtitles"}) => j = i
            /\ \A k \in 1..Len(attempts) : attempts[k].file # stderr[i].file
            /\ fi > stderr[i].file

\* what does hold: the failures find_subtitles returns as Err are contained
C8_ReturnedErrorsContained ==
    \A i \in 1..Len(stderr) :
        (stderr[i].at \in {"size_and_hash", "find_subtitles"} /\ stderr[i].kind = "error") =>
            /\ \A j \in 1..Len(stderr) :
                  (stderr[j].file = stderr[i].file
                      /\ stderr[j].at \in {"size_and_hash", "find_subtitles"}) => j = i
            /\ \A k \in 1..Len(attempts) : attempts[k].file # stderr[i].file
            /\ fi > stderr[i].file

\* the attempts made for language l of file f, as (index, candidate)
AttemptsFor(f, l) ==
    LET Mine(a) == a.file = f /\ a.lang = l
        mine == SelectSeq(attempts, Mine)
    IN  [k \in 1..Len(mine) |-> [idx |-> mine[k].idx, sub |-> mine[k].sub]]

\* the ranked group of language lang among the candidates s
RankedGroup(s, lang) ==
    LET n == Cardinality({i \in 1..Len(s) : s[i].lang = lang})
    IN  CHOOSE r \in [1..n -> {s[i] : i \in 1..Len(s)}] : RankedFor(r, s, lang)

\* what is to be materialized for a ranked group: its top without index
\* (Best), or every element with its 1-based place (All)
Selection(r) ==
    IF r = <<>> THEN <<>>
    ELSE IF args.which = "Best" THEN <<[idx |-> None, sub |-> r[1]]>>
    ELSE [k \in 1..Len(r) |-> [idx |-> Some(k), sub |-> r[k]]]

\* the run is through with language l of file f
Past(f, l) == Ended \/ f < fi \/ (f = fi /\ l < li)

\* the searches that returned candidates
Found == {i \in 1..Len(rpc) : rpc[i].method = "SearchSubtitles" /\ search_result(rpc[i].resp).ok}

\* C5: for each requested language of each file, Best attempts exactly one
\* materialization, of the top of the ranked group and without index, when
\* the group is not empty; All attempts one for every element of the group, in
\* rank order, the k-th with index k; no candidate of another language is
\* materialized for it.
C5_Selection ==
    \A i \in Found : \A l \in 1..Len(Langs) :
        Past(rpc[i].file, l) =>
            AttemptsFor(rpc[i].file, l)
                = Selection(RankedGroup(search_result(rpc[i].resp).val, Langs[l]))

\* what does hold: the attempts made for a language are the first ones of
\* its selection, in order
C5_SelectionPrefix ==
    \A i \in Found : \A l \in 1..Len(Langs) :
        LET att == AttemptsFor(rpc[i].file, l)
            sel == Selection(RankedGroup(search_result(rpc[i].resp).val, Langs[l]))
        IN  Len(att) <= Len(sel) /\ \A k \in 1..Len(att) : att[k] = sel[k]

\* the materialization under way or last started
LastAttempt == attempts[Len(attempts)]

\* C12: within one materialization the output file is not created, truncated
\* or written before the payload is completely fetched and decompressed: while
\* the body is being read or gunzipped, and after a materialization that
\* failed in the gunzip, the output path is as it was before (absent, or with
\* its old contents).
C12_WriteAfterDecompress ==
    attempts # <<>> =>
        /\ pc \in {"create", "read_to_end", "gunzip"} =>
              PathState(LastAttempt.path) = LastAttempt.old
        /\ (pc = "abort" /\ stderr[Len(stderr)].at = "download_to_file") =>
              PathState(LastAttempt.path) = LastAttempt.old

\* what does hold: the path is untouched up to File::create, and from then
\* to the write it is an empty file
C12_CreateBeforeRead ==
    attempts # <<>> =>
        /\ pc = "create" => PathState(LastAttempt.path) = LastAttempt.old
        /\ pc \in {"read_to_end", "gunzip", "write_all"} =>
              PathState(LastAttempt.path) = Some("")
        /\ (pc = "abort" /\ stderr[Len(stderr)].at = "download_to_file") =>
              PathState(LastAttempt.path) = Some("")

\* the warnings printed for language l of file f
WarningsFor(f, l) ==
    {k \in 1..Len(stderr) :
        stderr[k].kind = "warning" /\ stderr[k].file = f /\ stderr[k].lang = l}

\* language l of file f has no candidate in the search result res
NoCandidates(res, l) == FilterLang(res.val, Langs[l]) = <<>>

\* the loop of download_subtitles has left language l of file f behind
Through(f, l) == f < fi \/ (f = fi /\ l < li)

\* the lines of stderr and the attempts of one file come in the order of the
\* requested languages
InLangOrder ==
    /\ \A j, k \in 1..Len(stderr) :
          (j < k /\ stderr[j].file = stderr[k].file) => stderr[j].lang <= stderr[k].lang
    /\ \A j, k \in 1..Len(attempts) :
          (j < k /\ attempts[j].file = attempts[k].file) => attempts[j].lang <= attempts[k].lang

\* C11: for every requested language for which a file has no matching
\* candidate, download_subtitles prints one warning for that language,
\* attempts no download for it and returns no error for the file; the later
\* languages of the file are processed in the order given, and so is every
\* later file: a run that printed such a warning ends with all files done.
C11_NoCandidatesWarned ==
    /\ \A i \in Found : \A l \in 1..Len(Langs) :
          (NoCandidates(search_result(rpc[i].resp), l) /\ Past(rpc[i].file, l)) =>
              /\ Cardinality(WarningsFor(rpc[i].file, l)) = 1
              /\ AttemptsFor(rpc[i].file, l) = <<>>
              /\ \A k \in 1..Len(stderr) :
                    stderr[k].file = rpc[i].file => stderr[k].at \notin {"size_and_hash", "find_subtitles"}
    /\ InLangOrder
    /\ \A k \in 1..Len(stderr) :
          (stderr[k].kind = "warning" /\ Ended) => (pc = "exit" /\ fi = Len(args.files) + 1)

\* what does hold: the warning, the absence of a download and of an error
\* for every such language the loop has left behind, and the order
C11_WarnedWhenReached ==
    /\ \A i \in Found : \A l \in 1..Len(Langs) :
          (NoCandidates(search_result(rpc[i].resp), l) /\ Through(rpc[i].file, l)) =>
              /\ Cardinality(WarningsFor(rpc[i].file, l)) = 1
              /\ AttemptsFor(rpc[i].file, l) = <<>>
              /\ \A k \in 1..Len(stderr) :
                    stderr[k].file = rpc[i].file => stderr[k].at \notin {"size_and_hash", "find_subtitles"}
    /\ InLangOrder
    /\ \A k \in 1..Len(stderr) :
          (stderr[k].kind = "warning" /\ pc = "exit") => fi = Len(args.files) + 1

====
